---- MODULE Spec2Model ----
(***************************************************************************)
(* tranquility: a generic adapter that exposes a typed handler             *)
(*   func(ctx, in) returning (out, error)                                  *)
(* as a net/http handler.  The model covers NewHandler with its options    *)
(* (handler.go, options.go) and Handler.ServeHTTP (handler.go), the        *)
(* collaborators of the test suite (handler_test.go) and a second          *)
(* implementation of each collaborator type.                               *)
(***************************************************************************)
EXTENDS Integers, Sequences, FiniteSets, TLC

VARIABLES
  h,      \* the Handler[In, Out] struct: handler, headerFunc, codec, errorHandler
  opts,   \* the opts argument of NewHandler, a list of option functions
  nopt,   \* number of options the loop of NewHandler has applied
  handler,\* the handler argument of NewHandler
  built,  \* TRUE once NewHandler has returned h
  pc,     \* per request: the position of its ServeHTTP invocation
  req,    \* per request: the inbound http.Request (its body stream)
  loc,    \* per request: the locals of ServeHTTP (ctx, in, body, out, err, resultBytes)
  w,      \* per request: the http.ResponseWriter (status, header map, body, write counts)
  calls   \* per request: the collaborators invoked so far, in order, with their arguments

vars == <<h, opts, nopt, handler, built, pc, req, loc, w, calls>>

(***************************************************************************)
(* Bounds.                                                                 *)
(***************************************************************************)
MaxOpts == 3
NumReqs == 2

Reqs == 1..NumReqs

\* A nil interface, nil func or nil error.
Nil == "nil"

\* A pointer to Out: nil, or the address of a value.
NilPtr == <<>>
Ptr(v) == <<v>>
Deref(p) == p[1]

(***************************************************************************)
(* net/http status codes used by the adapter and by the collaborators.     *)
(***************************************************************************)
StatusOK == 200
StatusBadRequest == 400
StatusInternalServerError == 500

(***************************************************************************)
(* The In and Out types.  In is the Fizz of the tests.  Out is the Buzz of *)
(* the tests with a float field added, so that encoding/json has a value   *)
(* it rejects (NaN).                                                       *)
(***************************************************************************)
Languages == {"", "english", "latin"}

\* new(In): the zero value.
NewIn == [Language |-> ""]

Hello == [Greeting |-> "hello world!", Ratio |-> "1"]
NotANumber == [Greeting |-> "hello world!", Ratio |-> "NaN"]

\* errors.New values.
BadLanguage == "language not supported"
ErrPartial == "partial result"

(***************************************************************************)
(* Request bodies.                                                         *)
(***************************************************************************)
JsonIn(lang) == "{\"language\":\"" \o lang \o "\"}"

Bodies == {JsonIn("english"), JsonIn("latin"), "english", ""}

\* r.Body: a stream whose read fails, or one that yields the whole body.
Requests ==
  {[readErr |-> TRUE, data |-> ""]} \cup {[readErr |-> FALSE, data |-> b] : b \in Bodies}

(***************************************************************************)
(* encoding/json on In and Out.  A result is [err, val].                   *)
(***************************************************************************)
Ok(v) == [err |-> Nil, val |-> v]
Fail(e) == [err |-> e, val |-> ""]

\* json.Unmarshal(data, in): the document must be one JSON object.
JsonUnmarshal(data, in) ==
  IF \E l \in Languages : data = JsonIn(l)
  THEN Ok([in EXCEPT !.Language = CHOOSE l \in Languages : data = JsonIn(l)])
  ELSE Fail("invalid character")

\* json.Marshal(out) of a pointer to Out.
JsonMarshal(out) ==
  IF out = NilPtr THEN Ok("null")
  ELSE IF Deref(out).Ratio = "NaN" THEN Fail("json: unsupported value: NaN")
  ELSE Ok("{\"greeting\":\"" \o Deref(out).Greeting
            \o "\",\"ratio\":" \o Deref(out).Ratio \o "}")

(***************************************************************************)
(* Codecs.  TestCodec wraps encoding/json (handler_test.go).  PlainCodec   *)
(* is a second implementation of the Codec interface with a wire format of *)
(* its own: the body is the language, the response is the greeting.        *)
(***************************************************************************)
Codecs == {"TestCodec", "PlainCodec"}

CodecUnmarshal(c, data, in) ==
  IF c = "TestCodec" THEN JsonUnmarshal(data, in)
  ELSE IF data # "" THEN Ok([in EXCEPT !.Language = data])
  ELSE Fail("plain: empty body")

CodecMarshal(c, out) ==
  IF c = "TestCodec" THEN JsonMarshal(out)
  ELSE IF out = NilPtr THEN Fail("plain: nil output")
  ELSE IF Deref(out).Ratio = "NaN" THEN Fail("plain: bad ratio")
  ELSE Ok(Deref(out).Greeting)

(***************************************************************************)
(* Typed handlers.  A result is [out, err].                                *)
(***************************************************************************)
Handlers == {"TestHandler", "RatioHandler"}

\* TestHandler of the tests; RatioHandler returns a value json rejects on
\* success and a non-nil output together with its failure.
CallHandler(f, ctx, in) ==
  IF f = "TestHandler"
  THEN IF in.Language # "english"
       THEN [out |-> NilPtr, err |-> BadLanguage]
       ELSE [out |-> Ptr(Hello), err |-> Nil]
  ELSE IF in.Language # "english"
       THEN [out |-> Ptr(Hello), err |-> ErrPartial]
       ELSE [out |-> Ptr(NotANumber), err |-> Nil]

(***************************************************************************)
(* Error mappers.  A result is [code, err].                                *)
(***************************************************************************)
ErrorHandlers == {"TestErrorHandler", "TeapotErrorHandler"}

\* TestErrorHandler of the tests; TeapotErrorHandler maps BadLanguage to
\* http.StatusTeapot (418) with a transformed error and returns no error at
\* all for any other failure.
CallErrorHandler(f, ctx, err) ==
  IF f = "TestErrorHandler"
  THEN IF err = BadLanguage
       THEN [code |-> StatusBadRequest, err |-> err]
       ELSE [code |-> StatusInternalServerError, err |-> err]
  ELSE IF err = BadLanguage
       THEN [code |-> 418, err |-> "teapot: " \o err]
       ELSE [code |-> StatusInternalServerError, err |-> Nil]

(***************************************************************************)
(* Header functions.  A result is a map[string]string, here a function     *)
(* from the names to the values.                                           *)
(***************************************************************************)
HeaderFuncs == {"TestHeaderFunc", "CaseHeaderFunc"}

\* TestHeaderFunc of the tests; CaseHeaderFunc returns two names that differ
\* in letter case only.
CallHeaderFunc(f, ctx, in, out) ==
  IF f = "TestHeaderFunc"
  THEN [k \in {"x-language", "Content-Type"} |->
          IF k = "x-language" THEN in.Language ELSE "application/json"]
  ELSE [k \in {"x-language", "X-Language"} |->
          IF k = "x-language" THEN in.Language ELSE "override"]

(***************************************************************************)
(* http.Header: Set and Del canonicalise the name                          *)
(* (textproto.CanonicalMIMEHeaderKey).                                     *)
(***************************************************************************)
CanonicalMIMEHeaderKey(k) ==
  CASE k = "x-language" -> "X-Language"
    [] k = "content-type" -> "Content-Type"
    [] OTHER -> k

\* Set that stores the name as given, without canonicalising it.
HeaderSetRaw(hdr, k, v) == [n \in DOMAIN hdr \cup {k} |-> IF n = k THEN v ELSE hdr[n]]

HeaderSet(hdr, k, v) ==
  LET ck == CanonicalMIMEHeaderKey(k)
  IN [n \in DOMAIN hdr \cup {ck} |-> IF n = ck THEN v ELSE hdr[n]]

HeaderDel(hdr, k) ==
  [n \in DOMAIN hdr \ {CanonicalMIMEHeaderKey(k)} |-> hdr[n]]

EmptyHeader == [n \in {} |-> ""]

(***************************************************************************)
(* http.ResponseWriter, as net/http and httptest.ResponseRecorder behave:  *)
(* the first WriteHeader fixes the status, Write sends 200 first when no   *)
(* status was sent.  status = 0 means no status line was written yet;      *)
(* nWriteHeader and nWrite count the calls of WriteHeader and Write.       *)
(***************************************************************************)
NewResponseWriter ==
  [status |-> 0, header |-> EmptyHeader, body |-> "", nWriteHeader |-> 0, nWrite |-> 0]

WriteHeader(ww, code) ==
  [ww EXCEPT !.status = IF ww.status = 0 THEN code ELSE ww.status,
             !.nWriteHeader = ww.nWriteHeader + 1]

Write(ww, bytes) ==
  LET w1 == IF ww.status = 0 THEN [ww EXCEPT !.status = StatusOK] ELSE ww
  IN [w1 EXCEPT !.body = w1.body \o bytes, !.nWrite = w1.nWrite + 1]

\* http.Error(w, error, code): plain-text headers, the status, the message and
\* a newline (fmt.Fprintln).
HttpError(ww, error, code) ==
  LET h1 == HeaderDel(ww.header, "Content-Length")
      h2 == HeaderSet(h1, "Content-Type", "text/plain; charset=utf-8")
      h3 == HeaderSet(h2, "X-Content-Type-Options", "nosniff")
  IN Write(WriteHeader([ww EXCEPT !.header = h3], code), error \o "\n")

(***************************************************************************)
(* NewHandler and the options (handler.go, options.go).                    *)
(***************************************************************************)
\* WithCodec that keeps a codec an earlier option has set.
WithCodecKeepFirst(codec, hh) == IF hh.codec = Nil THEN [hh EXCEPT !.codec = codec] ELSE hh

WithCodec(codec, hh) == [hh EXCEPT !.codec = codec]

WithHeaderFunc(headerFunc, hh) == [hh EXCEPT !.headerFunc = headerFunc]

WithErrorHandler(errorHandler, hh) == [hh EXCEPT !.errorHandler = errorHandler]

\* An option is the closure an option constructor returned: [with, arg].
Options ==
  [with : {"WithCodec"}, arg : Codecs]
    \cup [with : {"WithHeaderFunc"}, arg : HeaderFuncs]
    \cup [with : {"WithErrorHandler"}, arg : ErrorHandlers]

\* opt(h)
ApplyOption(opt, hh) ==
  CASE opt.with = "WithCodec" -> WithCodec(opt.arg, hh)
    [] opt.with = "WithHeaderFunc" -> WithHeaderFunc(opt.arg, hh)
    [] opt.with = "WithErrorHandler" -> WithErrorHandler(opt.arg, hh)

\* h := &Handler[In, Out]{handler: handler}
NewStruct(f) ==
  [handler |-> f, headerFunc |-> Nil, codec |-> Nil, errorHandler |-> Nil]

OptionLists == UNION {[1..n -> Options] : n \in 0..MaxOpts}

Init ==
  /\ handler \in Handlers
  /\ h = NewStruct(handler)
  /\ opts \in OptionLists
  /\ nopt = 0
  /\ built = FALSE
  /\ pc = [r \in Reqs |-> "idle"]
  /\ req = [r \in Reqs |-> <<>>]
  /\ loc = [r \in Reqs |-> <<>>]
  /\ w = [r \in Reqs |-> NewResponseWriter]
  /\ calls = [r \in Reqs |-> <<>>]

\* for _, opt := range opts { opt(h) }
NewHandlerLoop ==
  /\ ~built
  /\ nopt < Len(opts)
  /\ h' = ApplyOption(opts[nopt + 1], h)
  /\ nopt' = nopt + 1
  /\ UNCHANGED <<opts, handler, built, pc, req, loc, w, calls>>

\* return h: the locals of NewHandler go away, the adapter is registered.
NewHandlerReturn ==
  /\ ~built
  /\ nopt = Len(opts)
  /\ built' = TRUE
  /\ opts' = <<>>
  /\ nopt' = 0
  /\ handler' = Nil
  /\ UNCHANGED <<h, pc, req, loc, w, calls>>

(***************************************************************************)
(* Handler.ServeHTTP (handler.go), one invocation per request r, one       *)
(* action per step.  The locals of the invocation are loc[r].              *)
(***************************************************************************)
\* The collaborator fn was called with args and returned ret.
Called(r, fn, args, ret) ==
  calls' = [calls EXCEPT ![r] = Append(@, [fn |-> fn, args |-> args, ret |-> ret])]

\* context.WithValue(context.Background(), "request", r)
WithValue(parent, key, val) == [parent |-> parent, key |-> key, val |-> val]

\* ctx.Value(key)
Value(ctx, key) == IF ctx.key = key THEN ctx.val ELSE Nil

\* Begin with the context of the first request served kept for every later
\* invocation (a context cached on the adapter) instead of one built per call.
BeginCachedCtx(r) ==
  /\ built
  /\ pc[r] = "idle"
  /\ \E q \in Requests : req' = [req EXCEPT ![r] = q]
  /\ loc' = [loc EXCEPT ![r] =
               [ctx |-> WithValue("Background", "request", 1), in |-> NewIn,
                body |-> "", out |-> NilPtr, err |-> Nil, resultBytes |-> ""]]
  /\ pc' = [pc EXCEPT ![r] = "read"]
  /\ UNCHANGED <<h, opts, nopt, handler, built, w, calls>>

\* The server calls ServeHTTP(w, r): ctx and in are set up.
Begin(r) ==
  /\ built
  /\ pc[r] = "idle"
  /\ \E q \in Requests : req' = [req EXCEPT ![r] = q]
  /\ loc' = [loc EXCEPT ![r] =
               [ctx |-> WithValue("Background", "request", r), in |-> NewIn,
                body |-> "", out |-> NilPtr, err |-> Nil, resultBytes |-> ""]]
  /\ pc' = [pc EXCEPT ![r] = "read"]
  /\ UNCHANGED <<h, opts, nopt, handler, built, w, calls>>

\* body, err := io.ReadAll(r.Body); if err != nil { http.Error(400); return }
ReadBody(r) ==
  /\ pc[r] = "read"
  /\ IF req[r].readErr
     THEN /\ w' = [w EXCEPT ![r] =
                     HttpError(@, "unable to read request body", StatusBadRequest)]
          /\ loc' = [loc EXCEPT ![r].err = "read error"]
          /\ pc' = [pc EXCEPT ![r] = "done"]
     ELSE /\ loc' = [loc EXCEPT ![r].body = req[r].data]
          /\ pc' = [pc EXCEPT ![r] = "decode"]
          /\ w' = w
  /\ Called(r, "io.ReadAll", <<>>, <<IF req[r].readErr THEN "read error" ELSE Nil>>)
  /\ UNCHANGED <<h, opts, nopt, handler, built, req>>

\* if h.codec != nil { err = h.codec.Unmarshal(body, in) }
\* else { err = json.Unmarshal(body, in) }
Unmarshal(hh, data, in) ==
  IF hh.codec # Nil
  THEN [fn |-> "codec.Unmarshal", res |-> CodecUnmarshal(hh.codec, data, in)]
  ELSE [fn |-> "json.Unmarshal", res |-> JsonUnmarshal(data, in)]

\* Decode into one input value shared by all invocations (as a field of the
\* adapter would be) instead of the in := new(In) of the invocation.
DecodeShared(r) ==
  /\ pc[r] = "decode"
  /\ LET um == Unmarshal(h, loc[r].body, loc[r].in)
         res == um.res
     IN /\ Called(r, um.fn, <<loc[r].body>>, <<res.err>>)
        /\ IF res.err # Nil
           THEN /\ w' = [w EXCEPT ![r] =
                           HttpError(@, "unable to unmarshal request body", StatusBadRequest)]
                /\ loc' = [loc EXCEPT ![r].err = res.err]
                /\ pc' = [pc EXCEPT ![r] = "done"]
           ELSE /\ loc' = [q \in Reqs |->
                             IF pc[q] = "idle" THEN loc[q]
                             ELSE [loc[q] EXCEPT !.in = res.val]]
                /\ pc' = [pc EXCEPT ![r] = "handle"]
                /\ w' = w
  /\ UNCHANGED <<h, opts, nopt, handler, built, req>>

\* Decode with the return after http.Error missing: the 400 is written and
\* the invocation goes on to the handler.
DecodeNoReturn(r) ==
  /\ pc[r] = "decode"
  /\ LET um == Unmarshal(h, loc[r].body, loc[r].in)
         res == um.res
     IN /\ Called(r, um.fn, <<loc[r].body>>, <<res.err>>)
        /\ IF res.err # Nil
           THEN /\ w' = [w EXCEPT ![r] =
                           HttpError(@, "unable to unmarshal request body", StatusBadRequest)]
                /\ loc' = [loc EXCEPT ![r].err = res.err]
           ELSE /\ loc' = [loc EXCEPT ![r].in = res.val]
                /\ w' = w
        /\ pc' = [pc EXCEPT ![r] = "handle"]
  /\ UNCHANGED <<h, opts, nopt, handler, built, req>>

\* Decode the body into in; if err != nil { http.Error(400); return }
Decode(r) ==
  /\ pc[r] = "decode"
  /\ LET um == Unmarshal(h, loc[r].body, loc[r].in)
         res == um.res
     IN /\ Called(r, um.fn, <<loc[r].body>>, <<res.err>>)
        /\ IF res.err # Nil
           THEN /\ w' = [w EXCEPT ![r] =
                           HttpError(@, "unable to unmarshal request body", StatusBadRequest)]
                /\ loc' = [loc EXCEPT ![r].err = res.err]
                /\ pc' = [pc EXCEPT ![r] = "done"]
           ELSE /\ loc' = [loc EXCEPT ![r].in = res.val]
                /\ pc' = [pc EXCEPT ![r] = "handle"]
                /\ w' = w
  /\ UNCHANGED <<h, opts, nopt, handler, built, req>>

\* Where ServeHTTP goes after the handler returned err: into the error
\* mapper only when err != nil and h.errorHandler != nil.
AfterHandler(hh, err) ==
  IF err # Nil /\ hh.errorHandler # Nil THEN "maperr" ELSE "encode"

\* out, err := h.handler(ctx, in)
Handle(r) ==
  /\ pc[r] = "handle"
  /\ LET res == CallHandler(h.handler, loc[r].ctx, loc[r].in)
     IN /\ loc' = [loc EXCEPT ![r].out = res.out, ![r].err = res.err]
        /\ pc' = [pc EXCEPT ![r] = AfterHandler(h, res.err)]
        /\ Called(r, "handler", <<loc[r].ctx, loc[r].in>>, <<res.out, res.err>>)
  /\ UNCHANGED <<h, opts, nopt, handler, built, req, w>>

\* MapError with the results of the error mapper dropped: the response is
\* written from the initial values resCode := 500, resErr := err.
MapErrorDefaults(r) ==
  /\ pc[r] = "maperr"
  /\ LET res == CallErrorHandler(h.errorHandler, loc[r].ctx, loc[r].err)
     IN /\ Called(r, "errorHandler", <<loc[r].ctx, loc[r].err>>, <<res.code, res.err>>)
        /\ w' = [w EXCEPT ![r] = HttpError(@, loc[r].err, StatusInternalServerError)]
        /\ pc' = [pc EXCEPT ![r] = "done"]
  /\ UNCHANGED <<h, opts, nopt, handler, built, req, loc>>

\* resCode, resErr = h.errorHandler(ctx, err); http.Error(w, resErr.Error(),
\* resCode); return.  resErr.Error() on a nil error is a nil dereference: the
\* invocation panics before http.Error is entered.
MapError(r) ==
  /\ pc[r] = "maperr"
  /\ LET res == CallErrorHandler(h.errorHandler, loc[r].ctx, loc[r].err)
     IN /\ Called(r, "errorHandler", <<loc[r].ctx, loc[r].err>>, <<res.code, res.err>>)
        /\ IF res.err = Nil
           THEN /\ pc' = [pc EXCEPT ![r] = "panic"]
                /\ w' = w
           ELSE /\ w' = [w EXCEPT ![r] = HttpError(@, res.err, res.code)]
                /\ pc' = [pc EXCEPT ![r] = "done"]
  /\ UNCHANGED <<h, opts, nopt, handler, built, req, loc>>

\* The encode step with the codec ignored.
MarshalJsonOnly(hh, out) == [fn |-> "json.Marshal", res |-> JsonMarshal(out)]

\* if h.codec != nil { resultBytes, err = h.codec.Marshal(out) }
\* else { resultBytes, err = json.Marshal(out) }
Marshal(hh, out) ==
  IF hh.codec # Nil
  THEN [fn |-> "codec.Marshal", res |-> CodecMarshal(hh.codec, out)]
  ELSE [fn |-> "json.Marshal", res |-> JsonMarshal(out)]

\* AfterEncode with the header step left out.
AfterEncodeSkipHeaders(hh) == "write"

\* Where ServeHTTP goes after a successful encode: into the header function
\* only when h.headerFunc != nil.
AfterEncode(hh) == IF hh.headerFunc # Nil THEN "headers" ELSE "write"

\* Encode with the return after http.Error missing: the 500 is written and
\* the invocation goes on to the headers and the body write.
EncodeNoReturn(r) ==
  /\ pc[r] = "encode"
  /\ LET m == Marshal(h, loc[r].out)
         res == m.res
     IN /\ Called(r, m.fn, <<loc[r].out>>, <<res.val, res.err>>)
        /\ IF res.err # Nil
           THEN /\ w' = [w EXCEPT ![r] =
                           HttpError(@, "unable to marshal response",
                                     StatusInternalServerError)]
                /\ loc' = [loc EXCEPT ![r].err = res.err]
           ELSE /\ loc' = [loc EXCEPT ![r].resultBytes = res.val, ![r].err = Nil]
                /\ w' = w
        /\ pc' = [pc EXCEPT ![r] = AfterEncode(h)]
  /\ UNCHANGED <<h, opts, nopt, handler, built, req>>

\* Encode out; if err != nil { http.Error(500); return }
Encode(r) ==
  /\ pc[r] = "encode"
  /\ LET m == Marshal(h, loc[r].out)
         res == m.res
     IN /\ Called(r, m.fn, <<loc[r].out>>, <<res.val, res.err>>)
        /\ IF res.err # Nil
           THEN /\ w' = [w EXCEPT ![r] =
                           HttpError(@, "unable to marshal response",
                                     StatusInternalServerError)]
                /\ loc' = [loc EXCEPT ![r].err = res.err]
                /\ pc' = [pc EXCEPT ![r] = "done"]
           ELSE /\ loc' = [loc EXCEPT ![r].resultBytes = res.val, ![r].err = Nil]
                /\ pc' = [pc EXCEPT ![r] = AfterEncode(h)]
                /\ w' = w
  /\ UNCHANGED <<h, opts, nopt, handler, built, req>>

\* The orders in which a range over a Go map can visit its keys.
RangeOrders(m) ==
  {o \in [1..Cardinality(DOMAIN m) -> DOMAIN m] :
     \A i, j \in DOMAIN o : i # j => o[i] # o[j]}

\* for k, v := range customHeaders { w.Header().Set(k, v) }, in the order o.
RECURSIVE SetAll(_, _, _)
SetAll(hdr, m, o) ==
  IF o = <<>> THEN hdr
  ELSE SetAll(HeaderSet(hdr, Head(o), m[Head(o)]), m, Tail(o))

\* if h.headerFunc != nil { customHeaders := h.headerFunc(ctx, in, out); ... }
Headers(r) ==
  /\ pc[r] = "headers"
  /\ LET customHeaders == CallHeaderFunc(h.headerFunc, loc[r].ctx, loc[r].in, loc[r].out)
     IN /\ \E o \in RangeOrders(customHeaders) :
             w' = [w EXCEPT ![r].header = SetAll(@, customHeaders, o)]
        /\ Called(r, "headerFunc", <<loc[r].ctx, loc[r].in, loc[r].out>>,
                  <<customHeaders>>)
  /\ pc' = [pc EXCEPT ![r] = "write"]
  /\ UNCHANGED <<h, opts, nopt, handler, built, req, loc>>

\* _, _ = w.Write(resultBytes)
WriteBody(r) ==
  /\ pc[r] = "write"
  /\ w' = [w EXCEPT ![r] = Write(@, loc[r].resultBytes)]
  /\ pc' = [pc EXCEPT ![r] = "done"]
  /\ UNCHANGED <<h, opts, nopt, handler, built, req, loc, calls>>

\* One invocation of ServeHTTP run from its first line to its return with
\* no other invocation in between: the outcomes (how it ended, and the
\* response) for request r with inbound request q on the adapter hh.
ServeAlone(hh, r, q) ==
  LET w0 == NewResponseWriter
      ctx == WithValue("Background", "request", r)
      end(ww) == [pc |-> "done", w |-> ww]
  IN IF q.readErr
     THEN {end(HttpError(w0, "unable to read request body", StatusBadRequest))}
     ELSE LET um == Unmarshal(hh, q.data, NewIn).res
          IN IF um.err # Nil
             THEN {end(HttpError(w0, "unable to unmarshal request body", StatusBadRequest))}
             ELSE LET hr == CallHandler(hh.handler, ctx, um.val)
                  IN IF hr.err # Nil /\ hh.errorHandler # Nil
                     THEN LET m == CallErrorHandler(hh.errorHandler, ctx, hr.err)
                          IN IF m.err = Nil
                             THEN {[pc |-> "panic", w |-> w0]}
                             ELSE {end(HttpError(w0, m.err, m.code))}
                     ELSE LET e == Marshal(hh, hr.out).res
                          IN IF e.err # Nil
                             THEN {end(HttpError(w0, "unable to marshal response",
                                                 StatusInternalServerError))}
                             ELSE IF hh.headerFunc # Nil
                                  THEN LET m == CallHeaderFunc(hh.headerFunc, ctx, um.val, hr.out)
                                       IN {end(Write([w0 EXCEPT !.header = SetAll(@, m, o)],
                                                     e.val)) : o \in RangeOrders(m)}
                                  ELSE {end(Write(w0, e.val))}

ServeHTTP(r) ==
  \/ Begin(r)
  \/ ReadBody(r)
  \/ Decode(r)
  \/ Handle(r)
  \/ MapError(r)
  \/ Encode(r)
  \/ Headers(r)
  \/ WriteBody(r)

Next ==
  \/ NewHandlerLoop
  \/ NewHandlerReturn
  \/ \E r \in Reqs : ServeHTTP(r)

Spec == Init /\ [][Next]_vars

(***************************************************************************)
(* Vocabulary of the properties.                                           *)
(***************************************************************************)
Terminal(r) == pc[r] \in {"done", "panic"}

CallsOf(r, fns) == {i \in DOMAIN calls[r] : calls[r][i].fn \in fns}

WasCalled(r, fns) == CallsOf(r, fns) # {}

DecoderFns == {"codec.Unmarshal", "json.Unmarshal"}
EncoderFns == {"codec.Marshal", "json.Marshal"}

\* The failure the typed handler returned to request r (Nil: none, or not called).
HandlerErr(r) ==
  IF WasCalled(r, {"handler"})
  THEN calls[r][CHOOSE i \in CallsOf(r, {"handler"}) : TRUE].ret[2]
  ELSE Nil

HandlerFailed(r) == HandlerErr(r) # Nil

HandlerSucceeded(r) == WasCalled(r, {"handler"}) /\ HandlerErr(r) = Nil

\* The headers http.Error leaves on a response that had none.
ErrorHeader ==
  ("Content-Type" :> "text/plain; charset=utf-8") @@ ("X-Content-Type-Options" :> "nosniff")

\* Exactly one status line and one body write went to the response of r.
OneResponse(r) == w[r].nWriteHeader = 1 /\ w[r].nWrite = 1

(***************************************************************************)
(* C1.  When the body was read and decoded, the typed handler returned a   *)
(* failure and no error mapper is configured, ServeHTTP never runs the     *)
(* encode step nor the header function, and it ends with status 500 and    *)
(* the failure's message as the body.                                      *)
(***************************************************************************)
C1_UnmappedFailureIs500 ==
  \A r \in Reqs :
    (HandlerFailed(r) /\ h.errorHandler = Nil) =>
      /\ ~WasCalled(r, EncoderFns \cup {"headerFunc"})
      /\ Terminal(r) =>
           /\ pc[r] = "done"
           /\ w[r].status = StatusInternalServerError
           /\ w[r].body = HandlerErr(r) \o "\n"

(***************************************************************************)
(* C2.  When the error mapper returned (S, failure with message M) for a   *)
(* request, that request is finished with status S and body M plus a       *)
(* newline, written once; neither the encode step nor the header function  *)
(* was run, and the response carries the headers of http.Error only.       *)
(***************************************************************************)
C2_MappedFailure ==
  \A r \in Reqs : \A i \in CallsOf(r, {"errorHandler"}) :
    calls[r][i].ret[2] # Nil =>
      /\ pc[r] = "done"
      /\ w[r].status = calls[r][i].ret[1]
      /\ w[r].body = calls[r][i].ret[2] \o "\n"
      /\ OneResponse(r)
      /\ ~WasCalled(r, EncoderFns \cup {"headerFunc"})
      /\ w[r].header = ErrorHeader

\* A handler failure mapped to a status other than 500 and to a transformed
\* message, on an adapter that has a header function.
C2_Witness ==
  \E r \in Reqs : \E i \in CallsOf(r, {"errorHandler"}) :
    /\ pc[r] = "done"
    /\ h.headerFunc # Nil
    /\ HandlerFailed(r)
    /\ calls[r][i].ret[2] \notin {Nil, HandlerErr(r)}
    /\ calls[r][i].ret[1] # StatusInternalServerError

(***************************************************************************)
(* The success path of request r: the handler returned no failure and the  *)
(* encode step returned no failure.                                        *)
(***************************************************************************)
HandlerOut(r) == calls[r][CHOOSE i \in CallsOf(r, {"handler"}) : TRUE].ret[1]

EncodeSucceeded(r) == \E i \in CallsOf(r, EncoderFns) : calls[r][i].ret[2] = Nil

Succeeded(r) == pc[r] = "done" /\ HandlerSucceeded(r) /\ EncodeSucceeded(r)

\* The encoding of the handler's output by the configured codec, else JSON.
ExpectedBody(r) ==
  IF h.codec # Nil THEN CodecMarshal(h.codec, HandlerOut(r)).val
  ELSE JsonMarshal(HandlerOut(r)).val

\* What the header function returns for (context, decoded input, output).
DeclaredHeaders(r) == CallHeaderFunc(h.headerFunc, loc[r].ctx, loc[r].in, HandlerOut(r))

\* The names of the mapping m that denote the same response header as k.
SameHeader(m, k) ==
  {j \in DOMAIN m : CanonicalMIMEHeaderKey(j) = CanonicalMIMEHeaderKey(k)}

(***************************************************************************)
(* C3 as stated.  On the success path the status is 200, the body is the   *)
(* encoding of the handler's output, and every name/value pair the header  *)
(* function returned is on the response with exactly that value.           *)
(***************************************************************************)
C3_EveryDeclaredHeader ==
  \A r \in Reqs :
    Succeeded(r) =>
      /\ w[r].status = StatusOK
      /\ w[r].body = ExpectedBody(r)
      /\ h.headerFunc # Nil =>
           \A k \in DOMAIN DeclaredHeaders(r) :
             /\ CanonicalMIMEHeaderKey(k) \in DOMAIN w[r].header
             /\ w[r].header[CanonicalMIMEHeaderKey(k)] = DeclaredHeaders(r)[k]

(***************************************************************************)
(* C3 amended.  On the success path the status is 200, the body is the     *)
(* encoding of the handler's output, written once, and every name the      *)
(* header function returned is a header of the response: with exactly the  *)
(* returned value when no other returned name denotes the same header, and *)
(* otherwise with the value of one of the names that denote it.            *)
(***************************************************************************)
C3_Success ==
  \A r \in Reqs :
    Succeeded(r) =>
      /\ w[r].status = StatusOK
      /\ w[r].body = ExpectedBody(r)
      /\ w[r].nWrite = 1
      /\ h.headerFunc # Nil =>
           \A k \in DOMAIN DeclaredHeaders(r) :
             /\ CanonicalMIMEHeaderKey(k) \in DOMAIN w[r].header
             /\ w[r].header[CanonicalMIMEHeaderKey(k)] \in
                  {DeclaredHeaders(r)[j] : j \in SameHeader(DeclaredHeaders(r), k)}

\* Two requests succeeded on an adapter with a codec and a header function;
\* the header function returned two names for one header, and the two
\* responses carry different values for it.
C3_Witness ==
  \E r, q \in Reqs :
    /\ Succeeded(r) /\ Succeeded(q)
    /\ h.codec # Nil /\ h.headerFunc # Nil
    /\ \E k \in DOMAIN DeclaredHeaders(r) : Cardinality(SameHeader(DeclaredHeaders(r), k)) > 1
    /\ DeclaredHeaders(r) = DeclaredHeaders(q)
    /\ w[r].header # w[q].header

(***************************************************************************)
(* C4.  A request whose body read failed is finished with 400 and the      *)
(* message "unable to read request body" (http.Error ends it with a        *)
(* newline) and nothing else was called for it; a request whose decode     *)
(* failed, the decode being the codec's when a codec is configured and     *)
(* JSON's otherwise, is finished with 400 and "unable to unmarshal request *)
(* body", and neither the handler, the error mapper, the encoder nor the   *)
(* header function was called for it.                                      *)
(***************************************************************************)
C4_BadRequest ==
  \A r \in Reqs :
    /\ \A i \in CallsOf(r, {"io.ReadAll"}) :
         calls[r][i].ret[1] # Nil =>
           /\ pc[r] = "done"
           /\ w[r].status = StatusBadRequest
           /\ w[r].body = "unable to read request body" \o "\n"
           /\ OneResponse(r)
           /\ Len(calls[r]) = 1
    /\ \A i \in CallsOf(r, DecoderFns) :
         /\ calls[r][i].fn = IF h.codec # Nil THEN "codec.Unmarshal" ELSE "json.Unmarshal"
         /\ calls[r][i].ret[1] # Nil =>
              /\ pc[r] = "done"
              /\ w[r].status = StatusBadRequest
              /\ w[r].body = "unable to unmarshal request body" \o "\n"
              /\ OneResponse(r)
              /\ ~WasCalled(r, {"handler", "errorHandler", "headerFunc"} \cup EncoderFns)

\* One request ended on a failed body read and another on a failed decode.
C4_Witness ==
  \E r, q \in Reqs :
    /\ pc[r] = "done" /\ req[r].readErr
    /\ pc[q] = "done" /\ \E i \in CallsOf(q, DecoderFns) : calls[q][i].ret[1] # Nil
    /\ h.errorHandler # Nil /\ h.headerFunc # Nil

(***************************************************************************)
(* C5.  When the handler succeeded and the encode step (the codec's when a *)
(* codec is configured, JSON's otherwise) failed, the request is finished  *)
(* with 500 and "unable to marshal response" (plus the newline of          *)
(* http.Error), written once; the header function was not called and the   *)
(* response carries the headers of http.Error only.                        *)
(***************************************************************************)
C5_EncodeFailure ==
  \A r \in Reqs : \A i \in CallsOf(r, EncoderFns) :
    (HandlerSucceeded(r) /\ calls[r][i].ret[2] # Nil) =>
      /\ pc[r] = "done"
      /\ calls[r][i].fn = IF h.codec # Nil THEN "codec.Marshal" ELSE "json.Marshal"
      /\ w[r].status = StatusInternalServerError
      /\ w[r].body = "unable to marshal response" \o "\n"
      /\ OneResponse(r)
      /\ ~WasCalled(r, {"headerFunc"})
      /\ w[r].header = ErrorHeader

\* A handler success whose output the encoder rejected, on an adapter that
\* has a header function.
C5_Witness ==
  \E r \in Reqs : \E i \in CallsOf(r, EncoderFns) :
    /\ pc[r] = "done"
    /\ HandlerSucceeded(r)
    /\ calls[r][i].ret[2] # Nil
    /\ h.headerFunc # Nil

(***************************************************************************)
(* C6.  Every failure is terminal: once a step has failed (body read,      *)
(* decode, handler, encode) no collaborator other than the error mapper of *)
(* a handler failure is called, the invocation ends normally with exactly  *)
(* one status and one body write, and nothing follows the written          *)
(* response.                                                               *)
(***************************************************************************)
FailedCall(c) ==
  \/ c.fn \in {"io.ReadAll"} \cup DecoderFns /\ c.ret[1] # Nil
  \/ c.fn \in {"handler"} \cup EncoderFns /\ c.ret[2] # Nil

C6_FailureIsTerminal ==
  \A r \in Reqs : \A i \in DOMAIN calls[r] :
    FailedCall(calls[r][i]) =>
      /\ \A j \in DOMAIN calls[r] :
           j > i => /\ calls[r][i].fn = "handler"
                    /\ calls[r][j].fn = "errorHandler"
                    /\ j = i + 1
      /\ Terminal(r) => pc[r] = "done" /\ OneResponse(r)
      /\ w[r].nWrite > 0 => pc[r] = "done"

(***************************************************************************)
(* C7.  No invocation of ServeHTTP panics, whatever the configuration and  *)
(* whatever the collaborators return, and an invocation that has returned  *)
(* has written a response.                                                 *)
(***************************************************************************)
C7_NoPanic ==
  \A r \in Reqs :
    /\ pc[r] # "panic"
    /\ pc[r] = "done" => w[r].status # 0 /\ w[r].nWrite > 0

(***************************************************************************)
(* C8.  While NewHandler runs, after any number of options applied, the    *)
(* handler field is the handler argument and each of codec, headerFunc and *)
(* errorHandler holds the argument of the last applied option that targets *)
(* it, or nil when none did (so an option leaves the other fields as they  *)
(* were).  This is the adapter NewHandler returns when all are applied.    *)
(***************************************************************************)
FieldOf(opt) ==
  CASE opt.with = "WithCodec" -> "codec"
    [] opt.with = "WithHeaderFunc" -> "headerFunc"
    [] opt.with = "WithErrorHandler" -> "errorHandler"

LastSet(field, n) ==
  LET idx == {i \in 1..n : FieldOf(opts[i]) = field}
  IN IF idx = {} THEN Nil
     ELSE opts[CHOOSE i \in idx : \A j \in idx : j <= i].arg

C8_LastOptionWins ==
  ~built =>
    /\ h.handler = handler
    /\ \A field \in {"codec", "headerFunc", "errorHandler"} : h[field] = LastSet(field, nopt)

\* All options applied, two of them target one field with different
\* arguments, and a field no option targets is left.
C8_Witness ==
  /\ ~built
  /\ nopt = Len(opts)
  /\ \E i, j \in 1..nopt :
       i < j /\ FieldOf(opts[i]) = FieldOf(opts[j]) /\ opts[i].arg # opts[j].arg
  /\ \E k \in 1..nopt : FieldOf(opts[k]) # FieldOf(opts[1])
  /\ \E field \in {"codec", "headerFunc", "errorHandler"} : h[field] = Nil

(***************************************************************************)
(* C9.  Once NewHandler has returned, no step changes a field of the       *)
(* adapter, and whatever the interleaving of the invocations, each ends    *)
(* the way it would have ended, with a response it could have written, had *)
(* it run alone on the adapter with its own inbound request.               *)
(***************************************************************************)
C9_AsIfAlone ==
  \A r \in Reqs :
    Terminal(r) => [pc |-> pc[r], w |-> w[r]] \in ServeAlone(h, r, req[r])

C9_Isolation == [][built => h' = h]_vars /\ []C9_AsIfAlone

\* Two invocations on one adapter, of different inbound requests, have
\* ended: one on the success path, the other not, with different responses.
C9_Witness ==
  \E r, q \in Reqs :
    /\ r # q
    /\ Terminal(r) /\ Terminal(q)
    /\ req[r] # req[q]
    /\ w[r] # w[q]
    /\ Succeeded(r)
    /\ ~Succeeded(q)

(***************************************************************************)
(* C10.  Every decode and every encode of a request is the codec's when a  *)
(* codec is configured and JSON's when none is, with the result that       *)
(* serializer gives: a request never mixes the two.                        *)
(***************************************************************************)
C10_OneSerializer ==
  \A r \in Reqs :
    /\ \A i \in CallsOf(r, DecoderFns) :
         IF h.codec # Nil
         THEN /\ calls[r][i].fn = "codec.Unmarshal"
              /\ calls[r][i].ret[1] = CodecUnmarshal(h.codec, calls[r][i].args[1], NewIn).err
         ELSE /\ calls[r][i].fn = "json.Unmarshal"
              /\ calls[r][i].ret[1] = JsonUnmarshal(calls[r][i].args[1], NewIn).err
    /\ \A i \in CallsOf(r, EncoderFns) :
         IF h.codec # Nil
         THEN /\ calls[r][i].fn = "codec.Marshal"
              /\ calls[r][i].ret[1] = CodecMarshal(h.codec, calls[r][i].args[1]).val
         ELSE /\ calls[r][i].fn = "json.Marshal"
              /\ calls[r][i].ret[1] = JsonMarshal(calls[r][i].args[1]).val
    /\ (pc[r] \in {"handle", "maperr", "encode", "headers", "write"}
          \/ WasCalled(r, {"handler"})) =>
         loc[r].in = IF h.codec # Nil
                     THEN CodecUnmarshal(h.codec, loc[r].body, NewIn).val
                     ELSE JsonUnmarshal(loc[r].body, NewIn).val

\* A request decoded and encoded by a codec whose wire format is not JSON.
C10_Witness ==
  \E r \in Reqs :
    /\ Succeeded(r)
    /\ h.codec = "PlainCodec"
    /\ WasCalled(r, {"codec.Unmarshal"}) /\ WasCalled(r, {"codec.Marshal"})
    /\ w[r].body # JsonMarshal(HandlerOut(r)).val

(***************************************************************************)
(* C11.  Every call of the typed handler, of the error mapper and of the   *)
(* header function for a request receives as its first argument the one    *)
(* context of that invocation, whose parent is the background context and  *)
(* in which the key "request" yields the inbound request of that very      *)
(* invocation.                                                             *)
(***************************************************************************)
CtxFns == {"handler", "errorHandler", "headerFunc"}

C11_RequestContext ==
  \A r \in Reqs : \A i \in CallsOf(r, CtxFns) :
    /\ calls[r][i].args[1] = loc[r].ctx
    /\ calls[r][i].args[1].parent = "Background"
    /\ Value(calls[r][i].args[1], "request") = r
    /\ \A j \in CallsOf(r, CtxFns) : calls[r][j].args[1] = calls[r][i].args[1]

\* On one adapter, one request went through the handler and the header
\* function and another through the handler and the error mapper.
C11_Witness ==
  \E r, q \in Reqs :
    /\ r # q
    /\ WasCalled(r, {"handler"}) /\ WasCalled(r, {"headerFunc"})
    /\ WasCalled(q, {"handler"}) /\ WasCalled(q, {"errorHandler"})
    /\ Value(loc[r].ctx, "request") # Value(loc[q].ctx, "request")

(***************************************************************************)
(* C12.  The collaborators of a request are called in the fixed order body *)
(* read, decode, handler, then either the error mapper or the encoder      *)
(* followed by the header function, each at most once; a step is entered   *)
(* only after the step before it succeeded (the error mapper: only after   *)
(* the handler failed); and on the path that writes the encoded output the *)
(* headers of the header function are on the response before its body is   *)
(* written.                                                                *)
(***************************************************************************)
StepOf(fn) ==
  CASE fn = "io.ReadAll" -> "read"
    [] fn \in DecoderFns -> "decode"
    [] fn \in EncoderFns -> "encode"
    [] OTHER -> fn

Steps(r) == [i \in DOMAIN calls[r] |-> StepOf(calls[r][i].fn)]

IsPrefix(s, t) == Len(s) <= Len(t) /\ \A i \in DOMAIN s : s[i] = t[i]

C12_FixedOrder ==
  \A r \in Reqs :
    \/ IsPrefix(Steps(r), <<"read", "decode", "handler", "errorHandler">>)
    \/ IsPrefix(Steps(r), <<"read", "decode", "handler", "encode", "headerFunc">>)

C12_HeadersBeforeBody ==
  \A r \in Reqs :
    (EncodeSucceeded(r) /\ h.headerFunc # Nil /\ w[r].nWrite > 0) =>
      /\ WasCalled(r, {"headerFunc"})
      /\ \E o \in RangeOrders(DeclaredHeaders(r)) :
           w[r].header = SetAll(EmptyHeader, DeclaredHeaders(r), o)

C12_AfterSuccessOnly ==
  \A r \in Reqs : \A i \in DOMAIN calls[r] :
    i > 1 =>
      IF calls[r][i].fn = "errorHandler"
      THEN FailedCall(calls[r][i - 1])
      ELSE ~FailedCall(calls[r][i - 1])

C12_StepOrder == C12_FixedOrder /\ C12_HeadersBeforeBody /\ C12_AfterSuccessOnly

(***************************************************************************)
(* The mapping the header function returned to request r, once the header  *)
(* step has run.                                                           *)
(***************************************************************************)
HeadersApplied(r) == WasCalled(r, {"headerFunc"})

ReturnedHeaders(r) == calls[r][CHOOSE i \in CallsOf(r, {"headerFunc"}) : TRUE].ret[1]

\* Two distinct names of the mapping m denote one response header.
Collides(m) == \E k \in DOMAIN m : Cardinality(SameHeader(m, k)) > 1

\* The name of the set S that the order o visits last.
LastOf(o, S) ==
  o[CHOOSE i \in DOMAIN o : o[i] \in S /\ \A j \in DOMAIN o : o[j] \in S => j <= i]

(***************************************************************************)
(* C13 as stated.  When the header function returned two names for one     *)
(* header, the headers on the response are what every order of applying    *)
(* the mapping's entries gives.                                            *)
(***************************************************************************)
C13_OrderIndependent ==
  \A r \in Reqs :
    (HeadersApplied(r) /\ Collides(ReturnedHeaders(r))) =>
      \A o \in RangeOrders(ReturnedHeaders(r)) :
        w[r].header = SetAll(EmptyHeader, ReturnedHeaders(r), o)

(***************************************************************************)
(* C13 amended.  After the header step the response has exactly the        *)
(* canonical names of the returned mapping as headers, and there is an     *)
(* order of the mapping's entries such that every header carries the value *)
(* of the last name in that order that denotes it; when no two returned    *)
(* names denote one header, every header carries exactly its returned      *)
(* value, whatever the order.                                              *)
(***************************************************************************)
C13_LastAppliedWins ==
  \A r \in Reqs :
    HeadersApplied(r) =>
      LET m == ReturnedHeaders(r)
      IN /\ DOMAIN w[r].header = {CanonicalMIMEHeaderKey(k) : k \in DOMAIN m}
         /\ \E o \in RangeOrders(m) :
              \A k \in DOMAIN m :
                w[r].header[CanonicalMIMEHeaderKey(k)] = m[LastOf(o, SameHeader(m, k))]
         /\ ~Collides(m) =>
              \A k \in DOMAIN m : w[r].header[CanonicalMIMEHeaderKey(k)] = m[k]

\* The header function returned two names with different values for one
\* header, and the response carries the value of the name that is not in
\* canonical form.
C13_Witness ==
  \E r \in Reqs :
    /\ pc[r] = "done"
    /\ HeadersApplied(r)
    /\ \E k, j \in DOMAIN ReturnedHeaders(r) :
         /\ k # j
         /\ j \in SameHeader(ReturnedHeaders(r), k)
         /\ ReturnedHeaders(r)[k] # ReturnedHeaders(r)[j]
         /\ k # CanonicalMIMEHeaderKey(k)
         /\ w[r].header[CanonicalMIMEHeaderKey(k)] = ReturnedHeaders(r)[k]

====
